---- MODULE Spec2Model ----
(***************************************************************************)
(* Model of nanoqm.workflows.input_validation (process_input and the       *)
(* InputSanitizer pipeline) and of nac.integrals.multipole_matrices        *)
(* (get_multipole_matrix and its HDF5 cache).                              *)
(*                                                                         *)
(* Python values are encoded as tagged tuples so that a key that is        *)
(* missing, a key bound to None and a key bound to a value compare without *)
(* mixing types: Absent, None, Val(v).                                     *)
(***************************************************************************)
EXTENDS Integers, Sequences, FiniteSets, TLC

VARIABLES
    pc,          \* next step of process_input / InputSanitizer.sanitize
    run,         \* 1: the run started by process_input, 2: sanitize run again on its result
    valid,       \* does the raw mapping satisfy the workflow's schema
    error,       \* exception raised to the caller ("none" when there is none)
    calls,       \* names of the steps executed so far, in order
    user_input,  \* InputSanitizer.user_input, top-level keys
    general,     \* InputSanitizer.general = user_input["cp2k_general_settings"], scalars
    settings,    \* general["cp2k_settings_main"], general["cp2k_settings_guess"]
    mol,         \* atoms compute_homo_index read from user_input["path_traj_xyz"]
    warned,      \* warnings.warn was called by compute_homo_index
    audit,       \* content of input_parameters.yml
    input0,      \* the mapping as it was handed to process_input
    prev,        \* nHOMO and mo_index_range returned by the first sanitize
    hdf5,        \* the HDF5 store: multipole path -> dataset
    n_compute,   \* per path, number of calls of compute_matrix_multipole
    returned     \* per path, the values get_multipole_matrix returned, in order

san_vars == <<pc, run, valid, error, calls, user_input, general, settings, mol,
              warned, audit, input0, prev>>
mp_vars == <<hdf5, n_compute, returned>>
vars == <<pc, run, valid, error, calls, user_input, general, settings, mol,
          warned, audit, input0, prev, hdf5, n_compute, returned>>

----------------------------------------------------------------------------
(* Python values *)

Absent == <<"absent">>
None == <<"none">>
Val(v) == <<"val", v>>
IsVal(x) == Len(x) = 2
Get(x) == x[2]

----------------------------------------------------------------------------
(* Bounds of the model *)

\* atoms in the geometry file
MaxAtoms == 2

\* trajectory points a multipole is requested for: 0..MaxPoint
MaxPoint == 0

\* get_multipole_matrix calls in one behaviour
MaxRequests == 3

----------------------------------------------------------------------------
(* Paths: a tuple of components, absolute when it starts at the root *)

cwd == <<"/", "cwd">>

join(a, b) == a \o <<b>>

abspath(p) == IF Len(p) > 0 /\ p[1] = "/" THEN p ELSE cwd \o p

----------------------------------------------------------------------------
(* Geometry and valence electrons *)

Elements == {"C", "H", "Xx"}

Molecules == UNION {[1..n -> Elements] : n \in 0..MaxAtoms}

\* templates.valence_electrons, keyed by '-'.join((symbol, basis))
valence_electrons ==
    [k \in {<<"C", "DZVP-MOLOPT">>, <<"H", "DZVP-MOLOPT">>} |->
        IF k[1] = "C" THEN 4 ELSE 1]

RECURSIVE sum_valence(_, _)
sum_valence(atoms, basis) ==
    IF atoms = <<>> THEN 0
    ELSE valence_electrons[<<Head(atoms), basis>>] + sum_valence(Tail(atoms), basis)

known_atoms(atoms, basis) ==
    \A i \in 1..Len(atoms) : <<atoms[i], basis>> \in DOMAIN valence_electrons

\* number_of_electrons of compute_homo_index, after the charge correction
number_of_electrons(atoms, g) == sum_valence(atoms, g.basis) - g.charge

homo_index_floor(n) == n \div 2

\* the return expression of compute_homo_index (Python // and % floor, as \div and %)
homo_index(n) == (n \div 2) + (n % 2)

----------------------------------------------------------------------------
(* Job specifications: the leaves of a qmflows Settings tree the sanitizer  *)
(* reads or writes.  SpecificKeys are the leaves below s.specific.          *)

SettingNames == {"cp2k_settings_main", "cp2k_settings_guess"}

SpecificKeys ==
    {"template",               \* specific.template
     "periodic",               \* specific.cp2k.force_eval.subsys.cell.periodic
     "charge",                 \* specific.cp2k.force_eval.dft.charge
     "multiplicity",           \* specific.cp2k.force_eval.dft.multiplicity
     "uks",                    \* specific.cp2k.force_eval.dft.uks
     "mo_index_range",         \* specific.cp2k.force_eval.dft.print.mo.mo_index_range
     "mo",                     \* the other keys of specific.cp2k.force_eval.dft.print.mo
     "added_mos",              \* specific.cp2k.force_eval.dft.scf.added_mos
     "wfn_restart_file_name",  \* specific.cp2k.force_eval.dft.wfn_restart_file_name
     "potential_file_name",    \* specific.cp2k.force_eval.dft.potential_file_name
     "basis_set_file_name",    \* specific.cp2k.force_eval.dft.basis_set_file_name
     "xc_pbe"}                 \* specific.cp2k.force_eval.dft.xc["xc_functional pbe"]

TopKeys == {"basis", "potential", "cell_parameters", "cell_angles", "executable"}

\* a job specification in which the user wrote nothing
EmptySettings == [k \in SpecificKeys \cup TopKeys |-> Absent] @@ [type |-> "dict"]

\* a job specification that asks for a template and nothing else
TemplateSettings == [EmptySettings EXCEPT !.template = Val("pbe")]

\* a job specification with a template and keywords of the user's own
CustomSettings ==
    [EmptySettings EXCEPT !.template = Val("pbe0"), !.periodic = Val("none"),
                          !.charge = Val(2), !.multiplicity = Val(5), !.uks = Val(""),
                          !.added_mos = Val(9), !.mo_index_range = Val("1 2"),
                          !.cell_parameters = Val(7), !.cell_angles = Val(90)]

\* the (main, guess) pairs a user supplies
UserSettings ==
    {<<EmptySettings, EmptySettings>>, <<TemplateSettings, TemplateSettings>>,
     <<CustomSettings, EmptySettings>>, <<EmptySettings, CustomSettings>>,
     <<TemplateSettings, CustomSettings>>}

\* templates.create_settings_from_template: the defaults a named template supplies
create_settings_from_template(g, name, path_traj_xyz) ==
    [k \in SpecificKeys |->
        CASE k = "xc_pbe" -> IF name = "pbe" THEN Val("") ELSE Absent
          [] k = "periodic" -> Val("xyz")
          [] k = "added_mos" -> Val(0)
          [] OTHER -> Absent]

\* Settings.overlay: the template's tree updated with the user's, the user's leaves win
overlay(template, specific) ==
    [k \in SpecificKeys |-> IF specific[k] # Absent THEN specific[k] ELSE template[k]]

\* the body of the loop of apply_templates for one job specification
apply_template(s, g, path_traj_xyz) ==
    IF s.template # Absent
    THEN LET cp2k_template == create_settings_from_template(g, Get(s.template), path_traj_xyz)
             specific == [k \in SpecificKeys |-> IF k = "template" THEN Absent ELSE s[k]]
             merged == overlay(cp2k_template, specific)
         IN  [k \in DOMAIN s |-> IF k \in SpecificKeys THEN merged[k] ELSE s[k]]
    ELSE s

----------------------------------------------------------------------------
(* The validated mapping *)

Generals ==
    [basis : {"DZVP-MOLOPT"}, potential : {"GTH-PBE"}, executable : {"cp2k.popt"},
     charge : {-1, 0, 1}, multiplicity : {1, 2, 3}, periodic : {"xyz"},
     cell_parameters : {Val(10)},
     file_cell_parameters : {None, Val(<<"cell.dat">>)},
     path_basis : {None, Val(<<"basis">>)},
     wfn_restart_file_name : {None, Val(<<>>), Val(<<"guess.wfn">>)}]

UserInputs ==
    [nHOMO : {None, Val(3)}, compute_orbitals : BOOLEAN,
     active_space : {<<1, 2>>, <<2, 0>>}, mo_index_range : {Absent},
     path_traj_xyz : {<<"traj.xyz">>}]

----------------------------------------------------------------------------
(* InputSanitizer: what each method does to the mapping *)

\* create_settings: Settings(...) wraps the plain dict
create_settings_one(s) == [s EXCEPT !.type = "Settings"]

nHOMO_always_missing(u) == TRUE

\* the guard of add_missing_keywords on nHOMO
nHOMO_missing(u) == u.nHOMO = None

orbitals_always_requested(u) == TRUE

\* the guard of add_missing_keywords on compute_orbitals
orbitals_requested(u) == u.compute_orbitals

\* mo_index_range of add_mo_index_range (active_space[0], [1] are [1], [2] here)
mo_index_range_of(nHOMO, active_space) ==
    <<nHOMO - active_space[1], nHOMO + active_space[2]>>

format_mo_index_range_0(r) == ToString(r[1]) \o " " \o ToString(r[2])

\* "{} {}".format(mo_index_range[0] + 1, mo_index_range[1])
format_mo_index_range(r) == ToString(r[1] + 1) \o " " \o ToString(r[2])

\* add_mo_index_range on cp2k_settings_main
add_mo_index_range_main(s, r, nHOMO) ==
    [s EXCEPT !.mo_index_range = Val(format_mo_index_range(r)),
              !.added_mos = Val(r[2] - nHOMO),
              !.mo = Val([add_last |-> "numeric", qs_scf |-> 0, eigenvalues |-> "",
                          eigenvectors |-> "", ndigits |-> 36])]

\* add_restart_point on cp2k_settings_guess
add_restart_point_guess(s, g) ==
    LET wfn == g.wfn_restart_file_name
    IN  IF wfn # None /\ Get(wfn) # <<>>
        THEN [s EXCEPT !.wfn_restart_file_name = Val(abspath(Get(wfn)))]
        ELSE s

\* select_basis_file
select_basis_file(s, g) ==
    LET molopt == <<abspath(join(Get(g.path_basis), "BASIS_MOLOPT"))>>
        admm == <<abspath(join(Get(g.path_basis), "BASIS_ADMM_MOLOPT")),
                  abspath(join(Get(g.path_basis), "BASIS_ADMM"))>>
    IN  [s EXCEPT !.basis_set_file_name =
            Val(IF s.xc_pbe = Absent THEN molopt \o admm ELSE molopt)]

\* the body of add_basis for one job specification
add_basis_one(s, g) ==
    IF g.path_basis # None
    THEN select_basis_file(
            [s EXCEPT !.basis = Val(g.basis), !.potential = Val(g.potential),
                      !.potential_file_name =
                          Val(abspath(join(Get(g.path_basis), "GTH_POTENTIALS")))], g)
    ELSE s

add_cell_parameters_no_reset(s, g) ==
    IF g.file_cell_parameters = None
    THEN [s EXCEPT !.cell_parameters = g.cell_parameters, !.cell_angles = None]
    ELSE [s EXCEPT !.cell_parameters = None]

\* the body of the loop of add_cell_parameters
add_cell_parameters_one(s, g) ==
    LET t == IF g.file_cell_parameters = None
             THEN [s EXCEPT !.cell_parameters = g.cell_parameters, !.cell_angles = None]
             ELSE [s EXCEPT !.cell_parameters = None]
    IN  [t EXCEPT !.cell_angles = None]

\* the body of the loop of add_periodic
add_periodic_one(s, g) == [s EXCEPT !.periodic = Val(g.periodic)]

\* the body of the loop of add_charge
add_charge_one(s, g) == [s EXCEPT !.charge = Val(g.charge)]

add_charge_main_only(S, g) ==
    [S EXCEPT !["cp2k_settings_main"] = add_charge_one(S["cp2k_settings_main"], g)]

\* add_charge
add_charge_all(S, g) == [n \in SettingNames |-> add_charge_one(S[n], g)]

add_multiplicity_from_one(s, g) ==
    IF g.multiplicity >= 1
    THEN [s EXCEPT !.multiplicity = Val(g.multiplicity), !.uks = Val("")]
    ELSE s

\* add_multiplicity for one job specification
add_multiplicity_one(s, g) ==
    IF g.multiplicity > 1
    THEN [s EXCEPT !.multiplicity = Val(g.multiplicity), !.uks = Val("")]
    ELSE s

\* add_executable for one job specification
add_executable_one(s, g) == [s EXCEPT !.executable = Val(g.executable)]

\* Settings.as_dict, as recursive_traverse applies it
as_dict(s) == [s EXCEPT !.type = "dict"]

\* the mapping print_final_input dumps
final_input(u, g, S) ==
    [user_input |-> u, general |-> g,
     settings |-> [n \in SettingNames |-> as_dict(S[n])]]

----------------------------------------------------------------------------
(* The multipole store *)

Multipoles == {"overlap", "dipole", "quadrupole"}

project_name == "project"

\* join(config['project_name'], 'multipole', 'point_{}'.format(i)) joined with multipole
path_multipole_hdf5(i, multipole) ==
    join(join(join(<<project_name>>, "multipole"), "point_" \o ToString(i)), multipole)

Paths == {path_multipole_hdf5(i, m) : i \in 0..MaxPoint, m \in Multipoles}

\* matrices a store may hold from earlier work
Matrices == {Val("M1"), Val("M2")}

EmptyStore == [p \in Paths |-> Absent]

----------------------------------------------------------------------------
(* process_input and InputSanitizer.sanitize, one action per step *)

SanInit ==
    /\ pc = "validate"
    /\ run = 1
    /\ valid \in BOOLEAN
    /\ error = "none"
    /\ calls = <<>>
    /\ user_input \in UserInputs
    /\ general \in Generals
    /\ \E us \in UserSettings :
          settings = [n \in SettingNames |->
                         IF n = "cp2k_settings_main" THEN us[1] ELSE us[2]]
    /\ mol = Absent
    /\ warned = FALSE
    /\ audit = Absent
    /\ input0 = [user_input |-> user_input, general |-> general, settings |-> settings]
    /\ prev = Absent

MultipoleIdle ==
    /\ hdf5 = EmptyStore
    /\ n_compute = [p \in Paths |-> 0]
    /\ returned = [p \in Paths |-> <<>>]

Init == SanInit /\ MultipoleIdle

step(name, next) ==
    /\ pc = name
    /\ pc' = next
    /\ calls' = Append(calls, name)

validate_lenient ==
    /\ step("validate", "create_settings")
    /\ UNCHANGED <<run, valid, error, user_input, general, settings, mol, warned,
                   audit, input0, prev>>
    /\ UNCHANGED mp_vars

\* process_input, lines 79-86: schema.validate, and the SchemaError raised again
validate ==
    /\ pc = "validate"
    /\ calls' = Append(calls, "validate")
    /\ IF valid
       THEN pc' = "create_settings" /\ error' = error
       ELSE pc' = "raised" /\ error' = "SchemaError"
    /\ UNCHANGED <<run, valid, user_input, general, settings, mol, warned,
                   audit, input0, prev>>
    /\ UNCHANGED mp_vars

create_settings ==
    /\ step("create_settings", "apply_templates")
    /\ settings' = [n \in SettingNames |-> create_settings_one(settings[n])]
    /\ UNCHANGED <<run, valid, error, user_input, general, mol, warned, audit,
                   input0, prev>>
    /\ UNCHANGED mp_vars

apply_templates ==
    /\ step("apply_templates", "add_missing_keywords")
    /\ settings' = [n \in SettingNames |->
                       apply_template(settings[n], general, user_input.path_traj_xyz)]
    /\ UNCHANGED <<run, valid, error, user_input, general, mol, warned, audit,
                   input0, prev>>
    /\ UNCHANGED mp_vars

\* add_missing_keywords, lines 135-136, with compute_homo_index; the geometry file
\* holds whatever atoms it holds when Molecule(...) reads it
add_missing_nHOMO ==
    /\ pc = "add_missing_keywords"
    /\ IF nHOMO_missing(user_input)
       THEN /\ calls' = calls \o <<"add_missing_keywords", "compute_homo_index">>
            /\ \E atoms \in Molecules :
                  /\ mol' = Val(atoms)
                  /\ IF known_atoms(atoms, general.basis)
                     THEN LET n == number_of_electrons(atoms, general)
                          IN  /\ user_input' =
                                     [user_input EXCEPT !.nHOMO = Val(homo_index(n))]
                              /\ warned' = (warned \/ (n % 2) # 0)
                              /\ pc' = "orbitals"
                              /\ error' = error
                     ELSE /\ pc' = "raised"
                          /\ error' = "KeyError"
                          /\ UNCHANGED <<user_input, warned>>
       ELSE /\ calls' = Append(calls, "add_missing_keywords")
            /\ pc' = "orbitals"
            /\ UNCHANGED <<user_input, warned, error, mol>>
    /\ UNCHANGED <<run, valid, general, settings, audit, input0, prev>>
    /\ UNCHANGED mp_vars

\* add_missing_keywords, lines 139-142, with add_mo_index_range
add_missing_mo_index_range ==
    /\ pc = "orbitals"
    /\ pc' = "add_restart_point"
    /\ IF orbitals_requested(user_input)
       THEN LET nHOMO == Get(user_input.nHOMO)
                r == mo_index_range_of(nHOMO, user_input.active_space)
            IN  /\ calls' = Append(calls, "add_mo_index_range")
                /\ user_input' = [user_input EXCEPT !.mo_index_range = Val(r)]
                /\ settings' = [settings EXCEPT !["cp2k_settings_main"] =
                                   add_mo_index_range_main(@, r, nHOMO)]
       ELSE UNCHANGED <<calls, user_input, settings>>
    /\ UNCHANGED <<run, valid, error, general, mol, warned, audit, input0, prev>>
    /\ UNCHANGED mp_vars

add_restart_point ==
    /\ step("add_restart_point", "add_basis")
    /\ settings' = [settings EXCEPT !["cp2k_settings_guess"] =
                       add_restart_point_guess(@, general)]
    /\ UNCHANGED <<run, valid, error, user_input, general, mol, warned, audit,
                   input0, prev>>
    /\ UNCHANGED mp_vars

add_basis ==
    /\ step("add_basis", "add_cell_parameters")
    /\ settings' = [n \in SettingNames |-> add_basis_one(settings[n], general)]
    /\ UNCHANGED <<run, valid, error, user_input, general, mol, warned, audit,
                   input0, prev>>
    /\ UNCHANGED mp_vars

add_cell_parameters ==
    /\ step("add_cell_parameters", "add_periodic")
    /\ settings' = [n \in SettingNames |-> add_cell_parameters_one(settings[n], general)]
    /\ UNCHANGED <<run, valid, error, user_input, general, mol, warned, audit,
                   input0, prev>>
    /\ UNCHANGED mp_vars

add_periodic ==
    /\ step("add_periodic", "add_charge")
    /\ settings' = [n \in SettingNames |-> add_periodic_one(settings[n], general)]
    /\ UNCHANGED <<run, valid, error, user_input, general, mol, warned, audit,
                   input0, prev>>
    /\ UNCHANGED mp_vars

add_charge ==
    /\ step("add_charge", "add_multiplicity")
    /\ settings' = add_charge_all(settings, general)
    /\ UNCHANGED <<run, valid, error, user_input, general, mol, warned, audit,
                   input0, prev>>
    /\ UNCHANGED mp_vars

add_multiplicity ==
    /\ step("add_multiplicity", "add_executable")
    /\ settings' = [n \in SettingNames |-> add_multiplicity_one(settings[n], general)]
    /\ UNCHANGED <<run, valid, error, user_input, general, mol, warned, audit,
                   input0, prev>>
    /\ UNCHANGED mp_vars

add_executable ==
    /\ step("add_executable", "print_final_input")
    /\ settings' = [n \in SettingNames |-> add_executable_one(settings[n], general)]
    /\ UNCHANGED <<run, valid, error, user_input, general, mol, warned, audit,
                   input0, prev>>
    /\ UNCHANGED mp_vars

print_final_input ==
    /\ step("print_final_input", "done")
    /\ audit' = Val(final_input(user_input, general, settings))
    /\ UNCHANGED <<run, valid, error, user_input, general, settings, mol, warned,
                   input0, prev>>
    /\ UNCHANGED mp_vars

\* InputSanitizer(d).sanitize() called again on the mapping the first call returned
sanitize_again ==
    /\ pc = "done"
    /\ run = 1
    /\ run' = 2
    /\ pc' = "create_settings"
    /\ prev' = Val([nHOMO |-> user_input.nHOMO,
                    mo_index_range |-> user_input.mo_index_range,
                    calls |-> Len(calls)])
    /\ UNCHANGED <<valid, error, calls, user_input, general, settings, mol, warned,
                   audit, input0>>
    /\ UNCHANGED mp_vars

Next ==
    \/ validate
    \/ create_settings
    \/ apply_templates
    \/ add_missing_nHOMO
    \/ add_missing_mo_index_range
    \/ add_restart_point
    \/ add_basis
    \/ add_cell_parameters
    \/ add_periodic
    \/ add_charge
    \/ add_multiplicity
    \/ add_executable
    \/ print_final_input
    \/ sanitize_again

Spec == Init /\ [][Next]_vars

----------------------------------------------------------------------------
(* get_multipole_matrix and the HDF5 store *)

\* common.search_data_in_hdf5: is there a dataset under the path
search_data_in_hdf5(store, path) == store[path] # Absent

\* common.retrieve_hdf5_data: the dataset persisted under the path
retrieve_hdf5_data(store, path) == store[path]

\* common.store_arrays_in_hdf5: persist the value under the path
store_arrays_in_hdf5(store, path, tensor) == [store EXCEPT ![path] = tensor]

search_multipole_in_hdf5(store, path) ==
    IF search_data_in_hdf5(store, path)
    THEN retrieve_hdf5_data(store, path)
    ELSE None

\* compute_matrix_multipole: both branches leave matrix_multipole = None
compute_matrix_multipole(molecule, multipole) ==
    IF multipole = "overlap" THEN None ELSE None

RECURSIVE n_requests(_, _)
n_requests(r, ps) ==
    IF ps = {} THEN 0
    ELSE LET p == CHOOSE q \in ps : TRUE
         IN  Len(r[p]) + n_requests(r, ps \ {p})

SanIdle ==
    /\ pc = "idle"
    /\ run = 1
    /\ valid = TRUE
    /\ error = "none"
    /\ calls = <<>>
    /\ user_input = [nHOMO |-> None, compute_orbitals |-> FALSE,
                     active_space |-> <<1, 2>>, mo_index_range |-> Absent,
                     path_traj_xyz |-> <<"traj.xyz">>]
    /\ general = [basis |-> "DZVP-MOLOPT", potential |-> "GTH-PBE",
                  executable |-> "cp2k.popt", charge |-> 0, multiplicity |-> 1,
                  periodic |-> "xyz", cell_parameters |-> Val(10),
                  file_cell_parameters |-> None, path_basis |-> None,
                  wfn_restart_file_name |-> None]
    /\ settings = [n \in SettingNames |-> EmptySettings]
    /\ mol = Absent
    /\ warned = FALSE
    /\ audit = Absent
    /\ input0 = [user_input |-> user_input, general |-> general, settings |-> settings]
    /\ prev = Absent

MultipoleInit ==
    /\ SanIdle
    /\ hdf5 \in [Paths -> {Absent} \cup Matrices]
    /\ n_compute = [p \in Paths |-> 0]
    /\ returned = [p \in Paths |-> <<>>]

get_multipole_matrix ==
    /\ n_requests(returned, Paths) < MaxRequests
    /\ \E i \in 0..MaxPoint, multipole \in Multipoles :
          LET path == path_multipole_hdf5(i, multipole)
              found == search_multipole_in_hdf5(hdf5, path)
              matrix_multipole == IF found = None
                                  THEN compute_matrix_multipole(mol, multipole)
                                  ELSE found
          IN  /\ n_compute' = [n_compute EXCEPT ![path] = IF found = None THEN @ + 1 ELSE @]
              /\ hdf5' = store_arrays_in_hdf5(hdf5, path, matrix_multipole)
              /\ returned' = [returned EXCEPT ![path] = Append(@, matrix_multipole)]
    /\ UNCHANGED san_vars

MultipoleNext == get_multipole_matrix

MultipoleSpec == MultipoleInit /\ [][MultipoleNext]_vars

----------------------------------------------------------------------------
(* Properties of process_input and InputSanitizer *)

main == settings["cp2k_settings_main"]
guess == settings["cp2k_settings_guess"]

sanitized == pc = "done"

\* the least integer h with 2h >= n
ceil_half(n) ==
    LET a == IF n < 0 THEN -n ELSE n
    IN  CHOOSE h \in (-a)..a : 2 * h >= n /\ 2 * (h - 1) < n

called(name) == \E i \in 1..Len(calls) : calls[i] = name

\* C1: when nHOMO was None in the mapping handed in, after sanitize nHOMO is
\* ceil(N / 2), N the sum of the valence electrons of the atoms read from the
\* geometry minus the general charge, for even and for odd N.
C1_nHOMO_is_ceil_half ==
    (sanitized /\ input0.user_input.nHOMO = None) =>
        /\ mol # Absent
        /\ user_input.nHOMO =
               Val(ceil_half(sum_valence(Get(mol), general.basis) - general.charge))

C1_witness_odd_electrons ==
    /\ sanitized
    /\ input0.user_input.nHOMO = None
    /\ mol = Val(<<"C", "H">>)
    /\ general.charge = 0
    /\ user_input.nHOMO = Val(3)
    /\ warned

\* C2: with compute_orbitals true, after sanitize mo_index_range is
\* (nHOMO - active_space[0], nHOMO + active_space[1]) and the keyword printed into
\* the main job specification is "<mo_index_range[0] + 1> <mo_index_range[1]>".
C2_mo_index_range_and_keyword ==
    (sanitized /\ user_input.compute_orbitals) =>
        LET nHOMO == Get(user_input.nHOMO)
            below == user_input.active_space[1]
            above == user_input.active_space[2]
        IN  /\ user_input.mo_index_range = Val(<<nHOMO - below, nHOMO + above>>)
            /\ main.mo_index_range =
                   Val(ToString(Get(user_input.mo_index_range)[1] + 1) \o " "
                       \o ToString(Get(user_input.mo_index_range)[2]))

C2_witness_printed_range ==
    /\ sanitized
    /\ user_input.compute_orbitals
    /\ input0.user_input.nHOMO = Val(3)
    /\ user_input.active_space = <<1, 2>>
    /\ user_input.mo_index_range = Val(<<2, 5>>)
    /\ main.mo_index_range = Val("3 5")

\* C3: after sanitize the key mo_index_range is present if and only if
\* compute_orbitals is true.
C3_mo_index_range_iff_orbitals ==
    sanitized => ((user_input.mo_index_range # Absent) <=> user_input.compute_orbitals)

C3_witness_no_orbitals ==
    /\ sanitized
    /\ ~user_input.compute_orbitals
    /\ user_input.mo_index_range = Absent

\* C4: add_multiplicity sets multiplicity and uks in force_eval.dft of the main and
\* of the guess job specification when the general multiplicity is greater than 1;
\* when it is 1 or less the stage adds neither keyword, so that both
\* specifications keep what the user wrote there (nothing, unless the user wrote it).
C4_multiplicity_iff_greater_than_one ==
    sanitized =>
        \A n \in SettingNames :
            IF general.multiplicity > 1
            THEN /\ settings[n].multiplicity = Val(general.multiplicity)
                 /\ settings[n].uks = Val("")
            ELSE /\ settings[n].multiplicity = input0.settings[n].multiplicity
                 /\ settings[n].uks = input0.settings[n].uks

C4_witness_open_shell ==
    /\ sanitized
    /\ general.multiplicity = 2
    /\ input0.settings["cp2k_settings_main"].uks = Absent
    /\ main.uks = Val("") /\ guess.uks = Val("")
    /\ main.multiplicity = Val(2) /\ guess.multiplicity = Val(2)

\* C5: once a sanitization has completed, the main and the guess job specification
\* carry the same periodicity, the same charge and, when the multiplicity is
\* injected, the same multiplicity, each the value of the general settings.
C5_main_and_guess_agree ==
    (sanitized \/ run = 2) =>
        \A n \in SettingNames :
            /\ settings[n].periodic = Val(general.periodic)
            /\ settings[n].charge = Val(general.charge)
            /\ general.multiplicity > 1 =>
                   settings[n].multiplicity = Val(general.multiplicity)

C5_witness_user_keywords_overwritten ==
    /\ sanitized
    /\ input0.settings["cp2k_settings_main"].charge = Val(2)
    /\ input0.settings["cp2k_settings_guess"].charge = Absent
    /\ general.multiplicity = 3
    /\ main.charge = guess.charge
    /\ main.periodic = guess.periodic
    /\ main.multiplicity = guess.multiplicity

\* C7: a second sanitize on the mapping the first one returned leaves nHOMO and
\* mo_index_range as the first left them, and does not derive nHOMO again.
C7_sanitize_idempotent_on_orbitals ==
    (run = 2 /\ sanitized) =>
        /\ user_input.nHOMO = Get(prev).nHOMO
        /\ user_input.mo_index_range = Get(prev).mo_index_range
        /\ \A i \in (Get(prev).calls + 1)..Len(calls) : calls[i] # "compute_homo_index"

C7_witness_second_run ==
    /\ run = 2
    /\ sanitized
    /\ input0.user_input.nHOMO = None
    /\ user_input.compute_orbitals
    /\ user_input.nHOMO = Get(prev).nHOMO
    /\ user_input.mo_index_range # Absent

\* C8: after add_cell_parameters, cell_angles is None on both job specifications;
\* cell_parameters is None on both when file_cell_parameters is supplied and the
\* general cell_parameters when it is None.
C8_cell_parameters ==
    called("add_cell_parameters") =>
        \A n \in SettingNames :
            /\ settings[n].cell_angles = None
            /\ settings[n].cell_parameters =
                   IF general.file_cell_parameters = None
                   THEN general.cell_parameters
                   ELSE None

C8_witness_file_supplied ==
    /\ pc = "add_periodic"
    /\ general.file_cell_parameters # None
    /\ input0.settings["cp2k_settings_main"].cell_angles = Val(90)
    /\ main.cell_angles = None /\ guess.cell_angles = None
    /\ main.cell_parameters = None /\ guess.cell_parameters = None

\* C9: schema validation runs exactly once and before every sanitizer stage; when
\* it fails the SchemaError reaches the caller, no stage runs, the mapping is as
\* it was handed in and input_parameters.yml is not written; when it passes the
\* sanitizer runs and validate is not called again.
C9_validation_precedes_sanitization ==
    /\ calls # <<>> =>
           /\ calls[1] = "validate"
           /\ \A i \in 2..Len(calls) : calls[i] # "validate"
    /\ ~valid =>
           /\ Len(calls) <= 1
           /\ audit = Absent
           /\ user_input = input0.user_input
           /\ general = input0.general
           /\ settings = input0.settings
           /\ calls # <<>> => (pc = "raised" /\ error = "SchemaError")
    /\ error = "SchemaError" => ~valid
    /\ (valid /\ calls # <<>>) => pc # "raised" \/ error = "KeyError"

C9_witness_schema_error ==
    /\ ~valid
    /\ pc = "raised"
    /\ error = "SchemaError"
    /\ calls = <<"validate">>
    /\ audit = Absent

----------------------------------------------------------------------------
(* Properties of get_multipole_matrix *)

\* C6: compute_matrix_multipole is invoked at most once per path, and every
\* request for a path returns what the first request for it returned.
C6_computed_at_most_once ==
    \A p \in Paths :
        /\ n_compute[p] <= 1
        /\ \A i \in 1..Len(returned[p]) : returned[p][i] = returned[p][1]

\* C10: on a miss the value persisted and returned is the computed matrix; no
\* empty placeholder is ever persisted in the store or returned.
C10_no_placeholder_persisted_or_returned ==
    \A p \in Paths :
        /\ hdf5[p] # None
        /\ \A i \in 1..Len(returned[p]) : returned[p][i] # None

====
